---- MODULE Spec2Model ----
(***************************************************************************)
(* Model of src/main.py: the TelegramBot relay.  The process reads its     *)
(* configuration, constructs the bot (prompt loaded once, one handler      *)
(* registered), starts polling, and runs handle_message for every update.  *)
(* Each handle_message invocation is its own task; the steps of a task are *)
(* the code between two await points.  The Russian log and reply strings   *)
(* of the source are written here in ASCII (TLA+ strings are ASCII); every *)
(* string is still built by the same concatenation the f-string performs.  *)
(***************************************************************************)
EXTENDS Integers, Sequences, FiniteSets, Bags, TLC

(* ------------------------------ bounds --------------------------------- *)
\* number of inbound updates of a run
MaxMsgs == 2

(* --------------------------- input domains ----------------------------- *)
EnvNames == {"TELEGRAM_TOKEN", "OPENAI_API_KEY", "PROMPT_FILE"}
\* chat ids of private chats (chat.id = from_user.id)
Chats == {1, 2}
\* message.text of an inbound text message, the empty text included
Texts == {"hi", ""}
Messages == [chat : Chats, from_user : Chats, text : Texts]
PrivateMessages == {m \in Messages : m.chat = m.from_user}
NoMessage == [chat |-> 0, from_user |-> 0, text |-> ""]

\* the file the prompt path names: readable with a content, missing
\* (FileNotFoundError), or not readable (PermissionError)
PromptContent == "Be brief."
Files == {[kind |-> "readable", content |-> PromptContent],
          [kind |-> "missing", content |-> ""],
          [kind |-> "denied", content |-> ""]}

\* response bodies: the raw text (resp.text()) and what resp.json() makes of
\* it: valid = FALSE when the body is not JSON, else the decoded document
Choice(c) == [hasContent |-> TRUE, content |-> c]
NotJson == [valid |-> FALSE, hasChoices |-> FALSE, choices |-> <<>>]
Document(cs) == [valid |-> TRUE, hasChoices |-> TRUE, choices |-> cs]
B_hello == [text |-> "{\"choices\":[{\"message\":{\"content\":\"hello\"}},{\"message\":{\"content\":\"bye\"}}]}",
            json |-> Document(<<Choice("hello"), Choice("bye")>>)]
B_hi == [text |-> "{\"choices\":[{\"message\":{\"content\":\"hi there\"}}]}",
         json |-> Document(<<Choice("hi there")>>)]
B_error == [text |-> "{\"error\":{\"message\":\"overloaded\"}}",
            json |-> [valid |-> TRUE, hasChoices |-> FALSE, choices |-> <<>>]]
B_html == [text |-> "<html>Bad Gateway</html>", json |-> NotJson]
B_none == [text |-> "", json |-> NotJson]
Responses == [status : {200}, body : {B_hello, B_hi, B_error, B_html}]
             \cup {[status |-> 429, body |-> B_hello], [status |-> 500, body |-> B_html]}
NoResponse == [status |-> 0, body |-> B_none]

Ids == 1..MaxMsgs

(* ------------------------------- state --------------------------------- *)
VARIABLES
    environ,        \* the environment variables that are set
    file,           \* the file at the prompt path
    pc,             \* position of the main program
    exit_status,    \* -1 while the process runs, else its exit status
    config,         \* TELEGRAM_TOKEN, OPENAI_API_KEY, PROMPT_FILE of __main__
    prompt,         \* self.prompt
    handlers,       \* handlers registered on dispatcher.message
    log,            \* bag of emitted log records
    update,         \* update[i]: the i-th inbound message
    tpc,            \* tpc[i]: position of the task handling update i
    resp,           \* resp[i]: what the endpoint answered to request i
    response,       \* response[i]: local `response` of handle_message
    exc,            \* exc[i]: the exception that ended task i, "" if none
    after_failure,  \* after_failure[i]: a completion call had failed when i was received
    posts,          \* bag of completion requests issued
    answers         \* bag of replies sent to chats

vars == <<environ, file, pc, exit_status, config, prompt, handlers, log,
          update, tpc, resp, response, exc, after_failure, posts, answers>>

mainVars == <<pc, exit_status, config, prompt, handlers>>
worldVars == <<environ, file>>
taskVars == <<update, tpc, resp, response, exc, after_failure, posts, answers>>

(* ---------------------------- pure helpers ----------------------------- *)
LogRecord(level, name, text) == [level |-> level, name |-> name, text |-> text]
Logged(l, rec) == l (+) SetToBag({rec})

FALLBACK == "Sorry, an error occurred while processing your request."

DefaultPromptFile == "prompt.txt"
\* variant: only the chat token is required
RequiredVars_token_only == {"TELEGRAM_TOKEN"}
\* env.str without a default, lines 109-110
RequiredVars == {"TELEGRAM_TOKEN", "OPENAI_API_KEY"}
EnvValue(name) ==
    CASE name = "TELEGRAM_TOKEN" -> "123:telegram"
      [] name = "OPENAI_API_KEY" -> "sk-key"
      [] name = "PROMPT_FILE" -> "custom.txt"

\* env.str(name) with no default raises when the variable is not set
FirstMissing(env) ==
    IF "TELEGRAM_TOKEN" \notin env THEN "TELEGRAM_TOKEN" ELSE "OPENAI_API_KEY"

\* load_prompt: the file content, "" on FileNotFoundError; any other error
\* is not caught
load_prompt(f, path) ==
    CASE f.kind = "readable" ->
           [raised |-> FALSE, value |-> f.content,
            rec |-> LogRecord("INFO", "TelegramBot", "Prompt loaded from file " \o path)]
      [] f.kind = "missing" ->
           [raised |-> FALSE, value |-> "",
            rec |-> LogRecord("ERROR", "TelegramBot", "File " \o path \o " not found.")]
      [] OTHER ->
           [raised |-> TRUE, value |-> "",
            rec |-> LogRecord("ERROR", "TelegramBot", "")]

\* variant: the prompt and the text are joined without the newline
wrapped_input_no_newline(p, user_input) == p \o user_input
\* f"{self.prompt}\n{user_input}"
wrapped_input(p, user_input) == p \o "\n" \o user_input

\* the error record of line 81-82
ErrorLogText(status, response_text) ==
    "Error calling OpenAI API. Status: " \o ToString(status)
        \o "\nServer response: " \o response_text

\* variant: the last choice is taken instead of the first
Extract_last(json) ==
    IF ~json.valid THEN [raised |-> "JSONDecodeError", value |-> ""]
    ELSE IF ~json.hasChoices THEN [raised |-> "KeyError", value |-> ""]
    ELSE IF Len(json.choices) = 0 THEN [raised |-> "IndexError", value |-> ""]
    ELSE IF ~json.choices[Len(json.choices)].hasContent
         THEN [raised |-> "KeyError", value |-> ""]
    ELSE [raised |-> "", value |-> json.choices[Len(json.choices)].content]
\* result['choices'][0]['message']['content'] on the decoded body
Extract(json) ==
    IF ~json.valid THEN [raised |-> "JSONDecodeError", value |-> ""]
    ELSE IF ~json.hasChoices THEN [raised |-> "KeyError", value |-> ""]
    ELSE IF Len(json.choices) = 0 THEN [raised |-> "IndexError", value |-> ""]
    ELSE IF ~json.choices[1].hasContent THEN [raised |-> "KeyError", value |-> ""]
    ELSE [raised |-> "", value |-> json.choices[1].content]

\* variant: only server errors (5xx) take the error branch
send_to_openai_result_5xx(r) ==
    IF r.status < 500
    THEN Extract(r.body.json)
    ELSE [raised |-> "", value |-> FALLBACK]
\* lines 76-83: the outcome of send_to_openai once the response is in
send_to_openai_result(r) ==
    IF r.status = 200
    THEN Extract(r.body.json)
    ELSE [raised |-> "", value |-> FALLBACK]

\* variant: an update is dispatched only when the handlers before it ended
CanDispatch_sequential(i) == \A j \in 1..(i - 1) : tpc[j] \in {"done", "raised"}
\* start_polling(bot) handles updates as tasks (handle_as_tasks defaults to
\* True): update i is dispatched as soon as the updates before it were
CanDispatch(i) == \A j \in 1..(i - 1) : tpc[j] \notin {"none", "queued"}

\* variant: the request is issued twice
Issued_twice(ps, i, content) ==
    ps (+) SetToBag({[task |-> i, content |-> content]})
       (+) SetToBag({[task |-> i, content |-> content]})
\* session.post(url, headers=headers, json=data), line 74: one request whose
\* single user message carries the text
Issued(ps, i, content) == ps (+) SetToBag({[task |-> i, content |-> content]})

\* a completion call that failed: transport error, non-200, malformed 200
CallFailed(i) ==
    \/ exc[i] # ""
    \/ resp[i] # NoResponse /\ resp[i].status # 200
    \/ resp[i] # NoResponse /\ Extract(resp[i].body.json).raised # ""

(* ------------------------------- Init ---------------------------------- *)
Init ==
    /\ environ \in SUBSET EnvNames
    /\ file \in Files
    /\ pc = "main"
    /\ exit_status = -1
    /\ config = [TELEGRAM_TOKEN |-> "", OPENAI_API_KEY |-> "", PROMPT_FILE |-> ""]
    /\ prompt = ""
    /\ handlers = <<>>
    /\ log = EmptyBag
    /\ update = [i \in Ids |-> NoMessage]
    /\ tpc = [i \in Ids |-> "none"]
    /\ resp = [i \in Ids |-> NoResponse]
    /\ response = [i \in Ids |-> ""]
    /\ exc = [i \in Ids |-> ""]
    /\ after_failure = [i \in Ids |-> FALSE]
    /\ posts = EmptyBag
    /\ answers = EmptyBag

(* --------------------------- main program ------------------------------ *)
\* __main__, lines 105-114: read the three variables or exit(1)
main_env ==
    /\ pc = "main"
    /\ IF RequiredVars \subseteq environ
       THEN /\ config' = [TELEGRAM_TOKEN |-> EnvValue("TELEGRAM_TOKEN"),
                          OPENAI_API_KEY |-> EnvValue("OPENAI_API_KEY"),
                          PROMPT_FILE |-> IF "PROMPT_FILE" \in environ
                                          THEN EnvValue("PROMPT_FILE")
                                          ELSE DefaultPromptFile]
            /\ pc' = "construct"
            /\ UNCHANGED <<log, exit_status>>
       ELSE /\ log' = Logged(log, LogRecord("ERROR", "root",
                         "Error loading environment variables: Environment variable \""
                         \o FirstMissing(environ) \o "\" not set"))
            /\ pc' = "exited"
            /\ exit_status' = 1
            /\ UNCHANGED config
    /\ UNCHANGED <<prompt, handlers>>
    /\ UNCHANGED worldVars
    /\ UNCHANGED taskVars

\* __main__ line 116, TelegramBot.__init__ lines 15-23 with load_prompt and
\* setup_handlers
TelegramBot_init ==
    /\ pc = "construct"
    /\ LET lp == load_prompt(file, config.PROMPT_FILE) IN
       IF lp.raised
       THEN /\ pc' = "crashed"
            /\ exit_status' = 1
            /\ UNCHANGED <<prompt, handlers, log>>
       ELSE /\ prompt' = lp.value
            /\ handlers' = Append(handlers, "handle_message")
            /\ log' = Logged(Logged(log, lp.rec),
                        LogRecord("INFO", "TelegramBot", "Bot initialised."))
            /\ pc' = "constructed"
            /\ UNCHANGED exit_status
    /\ UNCHANGED config
    /\ UNCHANGED worldVars
    /\ UNCHANGED taskVars

\* __main__ line 117, TelegramBot.start lines 89-90
start ==
    /\ pc = "constructed"
    /\ log' = Logged(log, LogRecord("INFO", "TelegramBot", "Bot started, polling."))
    /\ pc' = "polling"
    /\ UNCHANGED <<exit_status, config, prompt, handlers>>
    /\ UNCHANGED worldVars
    /\ UNCHANGED taskVars

(* ------------------------------ updates -------------------------------- *)
\* a user sends a message: the chat platform queues it as the next update
Arrive(i, m) ==
    /\ tpc[i] = "none"
    /\ \A j \in 1..(i - 1) : tpc[j] # "none"
    /\ update' = [update EXCEPT ![i] = m]
    /\ tpc' = [tpc EXCEPT ![i] = "queued"]
    /\ UNCHANGED <<resp, response, exc, after_failure, posts, answers>>
    /\ UNCHANGED <<log>>
    /\ UNCHANGED mainVars
    /\ UNCHANGED worldVars

\* handle_message lines 48-51 and send_to_openai lines 59-74: log the
\* message, build wrapped_input, issue the POST and suspend on it
handle_message(i) ==
    /\ pc = "polling"
    /\ Len(handlers) > 0
    /\ tpc[i] = "queued"
    /\ CanDispatch(i)
    /\ log' = Logged(log, LogRecord("INFO", "TelegramBot",
                 "Received message from " \o ToString(update[i].from_user)
                 \o ": " \o update[i].text))
    /\ posts' = Issued(posts, i, wrapped_input(prompt, update[i].text))
    /\ after_failure' = [after_failure EXCEPT ![i] = \E j \in Ids : CallFailed(j)]
    /\ tpc' = [tpc EXCEPT ![i] = "await_post"]
    /\ UNCHANGED <<update, resp, response, exc, answers>>
    /\ UNCHANGED mainVars
    /\ UNCHANGED worldVars

\* the request fails in transport (connection error, timeout): session.post
\* raises, nothing in send_to_openai or handle_message catches it, and the
\* dispatcher ends the task
post_fails(i) ==
    /\ tpc[i] = "await_post"
    /\ exc' = [exc EXCEPT ![i] = "ClientError"]
    /\ tpc' = [tpc EXCEPT ![i] = "raised"]
    /\ UNCHANGED <<update, resp, response, after_failure, posts, answers>>
    /\ UNCHANGED <<log>>
    /\ UNCHANGED mainVars
    /\ UNCHANGED worldVars

\* send_to_openai lines 74-83: the endpoint answers request i with r; branch
\* on the status, decode, and return to line 52 (message.answer is called
\* and awaited) or raise
send_to_openai(i, r) ==
    /\ tpc[i] = "await_post"
    /\ resp' = [resp EXCEPT ![i] = r]
    /\ LET res == send_to_openai_result(r) IN
       /\ log' = IF r.status = 200
                 THEN IF r.body.json.valid
                      THEN Logged(log, LogRecord("INFO", "TelegramBot",
                                   "Got a response from OpenAI API"))
                      ELSE log
                 ELSE Logged(log, LogRecord("ERROR", "TelegramBot",
                                   ErrorLogText(r.status, r.body.text)))
       /\ IF res.raised # ""
          THEN /\ exc' = [exc EXCEPT ![i] = res.raised]
               /\ tpc' = [tpc EXCEPT ![i] = "raised"]
               /\ UNCHANGED response
          ELSE /\ response' = [response EXCEPT ![i] = res.value]
               /\ tpc' = [tpc EXCEPT ![i] = "answer"]
               /\ UNCHANGED exc
    /\ UNCHANGED <<update, after_failure, posts, answers>>
    /\ UNCHANGED mainVars
    /\ UNCHANGED worldVars

\* handle_message lines 52-53: message.answer(response) completes, the reply
\* is in the chat, and the record of line 53 is logged
message_answer(i) ==
    /\ tpc[i] = "answer"
    /\ answers' = answers (+) SetToBag({[task |-> i, chat |-> update[i].chat,
                                         text |-> response[i]]})
    /\ log' = Logged(log, LogRecord("INFO", "TelegramBot",
                 "Sent reply to user " \o ToString(update[i].from_user)))
    /\ tpc' = [tpc EXCEPT ![i] = "done"]
    /\ UNCHANGED <<update, resp, response, exc, after_failure, posts>>
    /\ UNCHANGED mainVars
    /\ UNCHANGED worldVars

Next ==
    \/ main_env
    \/ TelegramBot_init
    \/ start
    \/ \E i \in Ids, m \in PrivateMessages : Arrive(i, m)
    \/ \E i \in Ids : handle_message(i)
    \/ \E i \in Ids : post_fails(i)
    \/ \E i \in Ids, r \in Responses : send_to_openai(i, r)
    \/ \E i \in Ids : message_answer(i)

Spec == Init /\ [][Next]_vars

\* the scheduling the event loop gives: the main program runs to polling,
\* a ready task is run, a reply handed to the chat transport is delivered.
\* Nothing obliges a user to write or the endpoint to answer.
FairSpec ==
    /\ Spec
    /\ WF_vars(main_env)
    /\ WF_vars(TelegramBot_init)
    /\ WF_vars(start)
    /\ \A i \in Ids : WF_vars(handle_message(i))
    /\ \A i \in Ids : WF_vars(message_answer(i))

TypeOK ==
    /\ pc \in {"main", "exited", "construct", "crashed", "constructed", "polling"}
    /\ exit_status \in {-1, 1}
    /\ \A i \in Ids : tpc[i] \in {"none", "queued", "await_post", "answer",
                                  "done", "raised"}

(* ------------------------- observation helpers ------------------------- *)
AnswersOf(i) == {a \in BagToSet(answers) : a.task = i}
NumAnswers(i) == BagCardinality([a \in AnswersOf(i) |-> answers[a]])
PostsOf(i) == {p \in BagToSet(posts) : p.task = i}
NumPosts(i) == BagCardinality([p \in PostsOf(i) |-> posts[p]])
Ended(i) == tpc[i] \in {"done", "raised"}
Received(i) == tpc[i] \notin {"none", "queued"}
WellFormed(r) ==
    /\ r.status = 200
    /\ r.body.json.valid
    /\ r.body.json.hasChoices
    /\ Len(r.body.json.choices) >= 1
    /\ r.body.json.choices[1].hasContent

(* ------------------------------- claims -------------------------------- *)

\* C1: every handled message, whatever the outcome of its completion call,
\* gets exactly one reply, sent to the chat it arrived on: never zero once
\* the handler has ended, never more than one.
C1_ExactlyOneReply ==
    \A i \in Ids :
        /\ NumAnswers(i) <= 1
        /\ \A a \in AnswersOf(i) : a.chat = update[i].chat
        /\ Ended(i) => NumAnswers(i) = 1

\* C2: send_to_openai never raises into handle_message, and on every failed
\* completion call the string it returns is the fixed apology string.
C2_NeverRaises ==
    \A i \in Ids :
        /\ tpc[i] # "raised"
        /\ exc[i] = ""
        /\ (CallFailed(i) /\ tpc[i] \in {"answer", "done"}) => response[i] = FALLBACK

\* C3: when messages of distinct senders are handled with their handlers
\* interleaved, each sender whose handler has ended has received exactly one
\* reply, and it is the result of that sender's own completion call.
C3_NoCrossTalk ==
    \A i \in Ids :
        (/\ Received(i)
         /\ \A j \in Ids \ {i} : Received(j) => update[j].chat # update[i].chat)
        => /\ NumAnswers(i) <= 1
           /\ \A a \in AnswersOf(i) :
                 /\ a.chat = update[i].chat
                 /\ resp[i] # NoResponse
                 /\ a.text = send_to_openai_result(resp[i]).value
           /\ Ended(i) => NumAnswers(i) = 1

\* C4: once a completion call has failed the process is still polling, and
\* every message received after the failure is handled and replied to.
C4_ServesAfterFailure ==
    /\ (\E i \in Ids : CallFailed(i)) => (pc = "polling" /\ exit_status = -1)
    /\ \A i \in Ids : (after_failure[i] /\ Ended(i)) => NumAnswers(i) = 1

\* C5: with TELEGRAM_TOKEN or OPENAI_API_KEY not set the process exits with
\* status 1 before the bot is constructed: no handler is registered, polling
\* never starts, no message is ever served.  With only PROMPT_FILE not set
\* startup goes on with the path prompt.txt.
C5_StartupCheck ==
    /\ (("TELEGRAM_TOKEN" \notin environ \/ "OPENAI_API_KEY" \notin environ)
            /\ pc # "main")
       => /\ pc = "exited"
          /\ exit_status = 1
          /\ handlers = <<>>
          /\ \A i \in Ids : ~Received(i)
          /\ posts = EmptyBag
          /\ answers = EmptyBag
    /\ ("TELEGRAM_TOKEN" \in environ /\ "OPENAI_API_KEY" \in environ
            /\ "PROMPT_FILE" \notin environ /\ pc # "main")
       => /\ pc # "exited"
          /\ config.PROMPT_FILE = "prompt.txt"
C5_Witness ==
    /\ pc = "exited"
    /\ "TELEGRAM_TOKEN" \in environ
    /\ "OPENAI_API_KEY" \notin environ
    /\ tpc[1] = "queued"

C7_Non200 ==
    \A i \in Ids :
        (resp[i] # NoResponse /\ resp[i].status # 200)
        => /\ tpc[i] \in {"answer", "done"}
           /\ response[i] = FALLBACK
           /\ \E rec \in BagToSet(log) :
                 /\ rec.level = "ERROR"
                 /\ rec.text = "Error calling OpenAI API. Status: "
                                  \o ToString(resp[i].status)
                                  \o "\nServer response: " \o resp[i].body.text
           /\ tpc[i] = "done"
                 => /\ NumAnswers(i) = 1
                    /\ \A a \in AnswersOf(i) :
                          a.text = FALLBACK /\ a.chat = update[i].chat
C7_Witness ==
    \E i \in Ids : resp[i] = [status |-> 429, body |-> B_hello] /\ tpc[i] = "done"

\* C8: a 200 response whose body has choices[0].message.content = C makes
\* the reply exactly C, and the fallback string is not sent.
C8_Verbatim ==
    \A i \in Ids :
        (resp[i] # NoResponse /\ WellFormed(resp[i]))
        => /\ tpc[i] \in {"answer", "done"}
           /\ response[i] = resp[i].body.json.choices[1].content
           /\ tpc[i] = "done"
                 => /\ NumAnswers(i) = 1
                    /\ \A a \in AnswersOf(i) :
                          /\ a.text = resp[i].body.json.choices[1].content
                          /\ a.text # FALLBACK
                          /\ a.chat = update[i].chat
C8_Witness ==
    \E i \in Ids : resp[i] = [status |-> 200, body |-> B_hello] /\ tpc[i] = "done"

\* C9: every received message has caused exactly one completion request,
\* failed or not, so N received messages make N requests.
C9_OneRequestPerMessage ==
    /\ \A i \in Ids : NumPosts(i) = (IF Received(i) THEN 1 ELSE 0)
    /\ BagCardinality(posts) = Cardinality({i \in Ids : Received(i)})
C9_Witness ==
    /\ \E i \in Ids : tpc[i] = "raised" /\ exc[i] = "ClientError"
    /\ \E i \in Ids : tpc[i] = "done" /\ resp[i].status = 500
    /\ BagCardinality(posts) = 2

\* C10: a handler suspended on its completion call, even one suspended for
\* ever, stalls nobody else: in every fair run there comes a point after
\* which no message is left waiting to be received and no handler whose
\* completion call has returned is left without its reply sent.
C10_NoStall ==
    <>[](pc = "polling" => \A i \in Ids : tpc[i] \notin {"queued", "answer"})
C10_Witness ==
    \E i \in Ids : \E j \in Ids :
        /\ j < i
        /\ tpc[j] = "await_post"
        /\ tpc[i] = "done"
        /\ NumAnswers(i) = 1
====
